---- MODULE Spec2Model ----
(***************************************************************************)
(* Model of the PAC-LEAD backend core: the conversational product session  *)
(* store with the chat router and the vision intake                        *)
(* (src/handlers_catalog.go), the inbound webhook forwarder                *)
(* (src/webhook_wa.go) and the instance lifecycle handlers                 *)
(* (src/handlers_resolve.go).                                              *)
(*                                                                         *)
(* Strings are sequences of one-character strings, so that trimming,       *)
(* replacing and number parsing are computed as the code computes them.    *)
(***************************************************************************)
EXTENDS Integers, Sequences, FiniteSets, TLC

(***************************************************************************)
(* String helpers (Go's strings package, on the characters the model uses) *)
(***************************************************************************)

Digits == <<"0", "1", "2", "3", "4", "5", "6", "7", "8", "9">>

IsDigit(c) == \E i \in 1..Len(Digits) : Digits[i] = c

DigitVal(c) == (CHOOSE i \in 1..Len(Digits) : Digits[i] = c) - 1

RECURSIVE TrimLeft(_)
TrimLeft(s) == IF s # <<>> /\ Head(s) = " " THEN TrimLeft(Tail(s)) ELSE s

RECURSIVE TrimRight(_)
TrimRight(s) ==
  IF s # <<>> /\ s[Len(s)] = " " THEN TrimRight(SubSeq(s, 1, Len(s) - 1)) ELSE s

TrimSpace(s) == TrimRight(TrimLeft(s))

LowerChar(c) == IF c = "R" THEN "r" ELSE c

ToLower(s) == [i \in 1..Len(s) |-> LowerChar(s[i])]

HasPrefix(s, p) == Len(s) >= Len(p) /\ SubSeq(s, 1, Len(p)) = p

RECURSIVE ReplaceAll(_, _, _)
ReplaceAll(s, old, new) ==
  IF s = <<>> THEN <<>>
  ELSE IF HasPrefix(s, old)
       THEN new \o ReplaceAll(SubSeq(s, Len(old) + 1, Len(s)), old, new)
       ELSE <<Head(s)>> \o ReplaceAll(Tail(s), old, new)

Count(s, c) == Cardinality({i \in 1..Len(s) : s[i] = c})

Contains(s, c) == Count(s, c) > 0

(***************************************************************************)
(* strconv.ParseFloat on the model's characters (digits, sign, period and  *)
(* characters that occur in no number): an optional sign, then digits with *)
(* at most one period and at least one digit.  The value is kept as the    *)
(* digit strings before and after the period.                              *)
(***************************************************************************)

RECURSIVE DigitsVal(_)
DigitsVal(ds) ==
  IF ds = <<>> THEN 0
  ELSE DigitsVal(SubSeq(ds, 1, Len(ds) - 1)) * 10 + DigitVal(ds[Len(ds)])

AllDigits(s) == \A i \in 1..Len(s) : IsDigit(s[i])

Unsigned(s) == IF s # <<>> /\ Head(s) \in {"+", "-"} THEN Tail(s) ELSE s

DotAt(s) == IF Contains(s, ".") THEN CHOOSE i \in 1..Len(s) : s[i] = "." ELSE Len(s) + 1

IntPart(s) == SubSeq(s, 1, DotAt(s) - 1)

FracPart(s) == SubSeq(s, DotAt(s) + 1, Len(s))

ParseFloatOk(s) ==
  LET u == Unsigned(s) IN
    /\ Count(u, ".") <= 1
    /\ AllDigits(IntPart(u))
    /\ AllDigits(FracPart(u))
    /\ Len(IntPart(u)) + Len(FracPart(u)) >= 1

\* f < 0: a minus sign and a non-zero digit (-0 is not less than zero)
FloatNegative(s) ==
  /\ s # <<>> /\ Head(s) = "-"
  /\ \E i \in 2..Len(s) : IsDigit(s[i]) /\ s[i] # "0"

FracDigit(fr, k) == IF Len(fr) >= k THEN DigitVal(fr[k]) ELSE 0

\* int(f*100 + 0.5) for f >= 0: hundredths, rounded half up on the third
\* fractional digit.  Exact for every input with at most two fractional
\* digits; with a third digit the float64 product can fall on the other side
\* of a half (1.005 gives 100), so the model's inputs keep to two.
CentsOf(s) ==
  LET u == Unsigned(s)
      fr == FracPart(u)
  IN DigitsVal(IntPart(u)) * 100 + FracDigit(fr, 1) * 10 + FracDigit(fr, 2)
       + (IF FracDigit(fr, 3) >= 5 THEN 1 ELSE 0)

(***************************************************************************)
(* parsePriceToCents: the result is (cents, ok), or a run-time panic when  *)
(* the slice str[len(str)-3:] is taken of a string shorter than three      *)
(* characters (the slice is evaluated only when the string has a comma).   *)
(***************************************************************************)

PriceStr(s) == TrimSpace(ReplaceAll(TrimSpace(ToLower(s)), <<"r", "$">>, <<>>))

LastThree(str) == SubSeq(str, Len(str) - 2, Len(str))

PricePanics(s) == Contains(PriceStr(s), ",") /\ Len(PriceStr(s)) < 3

NormalizedPrice(s) ==
  LET str == PriceStr(s) IN
    IF Contains(str, ",") /\ ~Contains(LastThree(str), ".")
    THEN ReplaceAll(ReplaceAll(str, <<".">>, <<>>), <<",">>, <<".">>)
    ELSE IF Count(str, ",") > 0 /\ Count(str, ".") > 0
         THEN ReplaceAll(str, <<",">>, <<>>)
         ELSE str

parsePriceToCents(s) ==
  IF PricePanics(s) THEN [panic |-> TRUE, ok |-> FALSE, cents |-> 0]
  ELSE LET n == NormalizedPrice(s) IN
    IF ParseFloatOk(n) /\ ~FloatNegative(n)
    THEN [panic |-> FALSE, ok |-> TRUE, cents |-> CentsOf(n)]
    ELSE [panic |-> FALSE, ok |-> FALSE, cents |-> 0]

\* strconv.Atoi behind mustAtoi: 0 on any error
mustAtoi(s) ==
  LET t == TrimSpace(s)
      u == Unsigned(t)
  IN IF u # <<>> /\ AllDigits(u)
     THEN (IF Head(t) = "-" THEN 0 - DigitsVal(u) ELSE DigitsVal(u))
     ELSE 0

nonEmpty(v, def) == IF TrimSpace(v) # <<>> THEN v ELSE def

firstNonEmpty(a, b) ==
  IF TrimSpace(a) # <<>> THEN a ELSE IF TrimSpace(b) # <<>> THEN b ELSE <<>>

limitRunes(s, max) ==
  IF Len(TrimSpace(s)) <= max THEN TrimSpace(s) ELSE SubSeq(TrimSpace(s), 1, max)

RECURSIVE Join(_, _)
Join(ss, sep) ==
  IF ss = <<>> THEN <<>>
  ELSE IF Len(ss) = 1 THEN ss[1]
  ELSE ss[1] \o sep \o Join(Tail(ss), sep)

TitleMax == 60
SlugMax == 300
CategoryMax == 80

(***************************************************************************)
(* Bounds and input sets                                                   *)
(***************************************************************************)

\* requests served by the chat / vision handlers in one run
MaxReq == 3

Reqs == 1..MaxReq

\* chat / vision requests in progress at the same time
MaxConc == 2

\* sessionId values of requests: absent, two ids, and an id with a leading blank
SessionIds == {<<>>, <<"a">>, <<"b">>, <<" ", "a">>}

\* chat message texts: a price, a comma in a two-character text, no price,
\* and a blank message
Messages == { <<"1", ",", "5">>, <<"1", ",">>, <<"a", "b">>, <<" ">> }

\* X-Org-ID / X-Flow-ID header pairs: absent, org given, org not positive
\* with flow given
Headers ==
  { [org |-> <<>>, flow |-> <<>>],
    [org |-> <<"2">>, flow |-> <<>>],
    [org |-> <<"-", "1">>, flow |-> <<"3">>] }

\* the prompt form value of a vision upload
Hints == {<<>>, <<"h">>}

(***************************************************************************)
(* productSuggest values decoded from the vision model's reply             *)
(***************************************************************************)

ZeroSuggest ==
  [Title |-> <<>>, Description |-> <<>>, Category |-> <<>>, Tags |-> <<>>]

\* the content of the first choice after json.Unmarshal: the decode error and
\* the struct as far as it was filled
VisionReplies ==
  { [jsonErr |-> FALSE,
     sug |-> [Title |-> <<"T">>, Description |-> <<"D">>, Category |-> <<"C">>,
              Tags |-> <<>>]],
    [jsonErr |-> FALSE,
     sug |-> [Title |-> <<"T">>, Description |-> <<>>, Category |-> <<>>,
              Tags |-> << <<"x">>, <<"y">> >>]],
    [jsonErr |-> FALSE,
     sug |-> [Title |-> <<" ">>, Description |-> <<"D">>, Category |-> <<"C">>,
              Tags |-> <<>>]],
    [jsonErr |-> TRUE, sug |-> ZeroSuggest] }

\* the fallback branch of visionUpload
Produto == <<"P", "r", "o", "d", "u", "t", "o">>
FallbackDescription == <<"a", "u", "t", "o">>
Geral == <<"G", "e", "r", "a", "l">>

\* a decode that keeps whatever the model answered
suggestFromReplyOnly(reply, nameHint) == reply.sug

suggestFrom(reply, nameHint) ==
  IF reply.jsonErr \/ TrimSpace(reply.sug.Title) = <<>>
  THEN [reply.sug EXCEPT
          !.Title = nonEmpty(nameHint, Produto),
          !.Description = FallbackDescription,
          !.Category = IF reply.sug.Category = <<>> THEN Geral ELSE @]
  ELSE reply.sug

(***************************************************************************)
(* State                                                                   *)
(***************************************************************************)

VARIABLES
  openaiKey,      \* OPENAI_API_KEY is set in the process environment
  pendBySession,  \* the pending drafts, keyed by session id
  products,       \* rows of the products table, in insertion order
  uploads,        \* image files written to the upload directory
  now,            \* time.Now().UnixNano() as a counter
  started,        \* number of chat / vision requests begun
  creq            \* the chat / vision requests: position and locals

catVars == <<openaiKey, pendBySession, products, uploads, now, started, creq>>

VARIABLES
  uazBase,        \* UAZAPI_BASE is set: the provider gateway is configured
  agentBase,      \* AGENT_BACKEND_URL, by the shape of its value
  wa_instances,   \* rows of public.wa_instances, keyed by instance_id
  webhooks_log,   \* rows of public.webhooks_log, in insertion order
  forwards,       \* requests sent to the downstream agent, in order
  wstarted,       \* number of webhook / instance requests begun
  wreq            \* the webhook / instance requests: position and locals

waVars == <<uazBase, agentBase, wa_instances, webhooks_log, forwards, wstarted, wreq>>

VARIABLES
  priceIn,        \* the text handed to parsePriceToCents
  priceOut        \* what the call returned, once it has been made

priceVars == <<priceIn, priceOut>>

\* parsePriceToCents has not been called
NoPrice == [none |-> TRUE]

VARIABLES
  istarted,       \* instance requests (create, status, QR, send) started so far
  ireq            \* per instance request: where its handler is, and its locals

instVars == <<istarted, ireq>>

\* instance requests served in one run
MaxInstReq == 2

IReqs == 1..MaxInstReq

\* an instance request that has not arrived
IdleI ==
  [kind |-> "none", pc |-> "idle", name |-> <<>>, instance |-> <<>>,
   token |-> <<>>, org |-> 0, flow |-> 0, wrote |-> "none", last |-> "none",
   sent |-> <<>>, st |-> <<>>, status |-> 0, body |-> "none"]

\* instance and SetWebhook requests in progress at the same time
MaxInstConc == 1

InstInFlight == {q \in IReqs : ireq[q].pc \notin {"idle", "done"}}

VARIABLES
  pendMu          \* the request that holds the session store's mutex; 0 when free

lockVars == <<pendMu>>

vars == <<catVars, waVars, priceVars, instVars, lockVars>>

NoDraft == [none |-> TRUE]

NoResp == [status |-> 0, kind |-> "none", prod |-> 0]

\* The locals a request carries from one step to the next.  A request value
\* (header, form field) that is read and used within one step is drawn in
\* that step.
IdleReq ==
  [pc |-> "idle", sid |-> <<>>, msg |-> <<>>, hdr |-> [org |-> <<>>, flow |-> <<>>],
   p |-> NoDraft, cents |-> 0, sug |-> ZeroSuggest, file |-> 0, resp |-> NoResp]

\* a finished request keeps only its response
Finished(status, kind, prod) ==
  [IdleReq EXCEPT !.pc = "done",
                  !.resp = [status |-> status, kind |-> kind, prod |-> prod]]

(***************************************************************************)
(* The session store: setPending, getPending, clearPending.  Each runs     *)
(* under pendMu from its first to its last statement, so each is one step. *)
(***************************************************************************)

\* a setPending without the check for an empty session id
setPendingAnyKey(pend, session, p) ==
  [k \in DOMAIN pend \cup {session} |-> IF k = session THEN p ELSE pend[k]]

\* a setPending that replaces the map instead of adding to it
setPendingReplacesMap(pend, session, p) ==
  IF session = <<>> THEN pend ELSE [k \in {session} |-> p]

setPending(pend, session, p) ==
  IF session = <<>> THEN pend
  ELSE [k \in DOMAIN pend \cup {session} |-> IF k = session THEN p ELSE pend[k]]

getPending(pend, session) ==
  IF session \in DOMAIN pend
  THEN [p |-> pend[session], ok |-> TRUE]
  ELSE [p |-> NoDraft, ok |-> FALSE]

\* a clearPending that forgets the delete
clearPendingKeeps(pend, session) == pend

clearPending(pend, session) == [k \in DOMAIN pend \ {session} |-> pend[k]]

(***************************************************************************)
(* chatHandler                                                             *)
(***************************************************************************)

\* the tenant of the inserted row: the request's header when it is a
\* positive number, else the draft's, else 1
\* the tenant taken from the header without the check for a positive number
commitOrgUnchecked(hdr, p) == mustAtoi(TrimSpace(hdr.org))

commitOrg(hdr, p) ==
  LET h == mustAtoi(TrimSpace(hdr.org))
      o == IF h <= 0 THEN p.OrgID ELSE h
  IN IF o <= 0 THEN 1 ELSE o

commitFlow(hdr, p) ==
  LET h == mustAtoi(TrimSpace(hdr.flow))
      f == IF h <= 0 THEN p.FlowID ELSE h
  IN IF f <= 0 THEN 1 ELSE f

productRow(id, hdr, p, cents) ==
  [id |-> id,
   org_id |-> commitOrg(hdr, p),
   flow_id |-> commitFlow(hdr, p),
   title |-> limitRunes(p.Suggest.Title, TitleMax),
   slug |-> limitRunes(firstNonEmpty(p.Suggest.Description,
                                     Join(p.Suggest.Tags, <<",", " ">>)), SlugMax),
   status |-> "active",
   image_base64 |-> p.ImageURL,
   price_cents |-> cents,
   stock |-> 0,
   category |-> limitRunes(p.Suggest.Category, CategoryMax)]

\* a lookup that drops the okp check and commits whatever the parse returned
chatAfterLookupIgnoresOk(sid, msg, hdr, pend) ==
  LET g == getPending(pend, sid)
      m == TrimSpace(msg)
      pr == parsePriceToCents(m)
  IN IF m = <<>> THEN Finished(400, "error", 0)
     ELSE IF ~g.ok THEN [IdleReq EXCEPT !.pc = "chat_ai"]
     ELSE IF pr.panic THEN Finished(500, "panic", 0)
     ELSE [IdleReq EXCEPT !.pc = "chat_insert", !.sid = sid, !.hdr = hdr,
                          !.p = g.p, !.cents = pr.cents]

\* From the decoded body to the statement before the catalog insert: the
\* message check, getPending and the price parse.  Only getPending touches
\* shared state.
chatAfterLookup(sid, msg, hdr, pend) ==
  LET g == getPending(pend, sid)
      m == TrimSpace(msg)
      pr == parsePriceToCents(m)
  IN IF m = <<>> THEN Finished(400, "error", 0)
     ELSE IF ~g.ok THEN [IdleReq EXCEPT !.pc = "chat_ai"]
     ELSE IF pr.panic THEN Finished(500, "panic", 0)
     ELSE IF pr.ok
          THEN [IdleReq EXCEPT !.pc = "chat_insert", !.sid = sid, !.hdr = hdr,
                               !.p = g.p, !.cents = pr.cents]
          ELSE Finished(200, "reprompt", 0)

InFlight == {q \in Reqs : creq[q].pc \notin {"idle", "done"}}

CanStart(r) ==
  /\ started < MaxReq
  /\ r = started + 1
  /\ creq[r].pc = "idle"
  /\ Cardinality(InFlight) < MaxConc

ChatNoKey(r) ==
  /\ CanStart(r)
  /\ ~openaiKey
  /\ creq' = [creq EXCEPT ![r] = Finished(500, "error", 0)]
  /\ started' = started + 1
  /\ UNCHANGED <<waVars, priceVars, lockVars, instVars, openaiKey, pendBySession, products, uploads, now>>

ChatBadJSON(r) ==
  /\ CanStart(r)
  /\ openaiKey
  /\ creq' = [creq EXCEPT ![r] = Finished(400, "error", 0)]
  /\ started' = started + 1
  /\ UNCHANGED <<waVars, priceVars, lockVars, instVars, openaiKey, pendBySession, products, uploads, now>>

\* a chat request with a decodable body arrives
ChatBegin(r) ==
  /\ CanStart(r)
  /\ openaiKey
  /\ \E sid \in SessionIds, msg \in Messages :
       creq' = [creq EXCEPT ![r] =
                  [IdleReq EXCEPT !.pc = "chat_recv", !.sid = sid, !.msg = msg]]
  /\ started' = started + 1
  /\ UNCHANGED <<waVars, priceVars, lockVars, instVars, openaiKey, pendBySession, products, uploads, now>>

ChatLookup(r) ==
  /\ creq[r].pc = "chat_recv"
  /\ \E hdr \in Headers :
       creq' = [creq EXCEPT ![r] =
                  chatAfterLookup(creq[r].sid, creq[r].msg, hdr, pendBySession)]
  /\ UNCHANGED <<waVars, priceVars, lockVars, instVars, openaiKey, pendBySession, products, uploads, now, started>>

\* a failed insert that also closes the session
afterInsertErrorClears(pend, session) == clearPending(pend, session)

\* the session store after a failed insert: the handler returns before
\* clearPending
afterInsertError(pend, session) == pend

\* INSERT INTO products ... RETURNING, and the row.Scan of the result
ChatInsert(r) ==
  /\ creq[r].pc = "chat_insert"
  /\ \/ /\ products' = Append(products,
                         productRow(Len(products) + 1, creq[r].hdr, creq[r].p,
                                    creq[r].cents))
        /\ creq' = [creq EXCEPT ![r].pc = "chat_clear",
                                ![r].resp = [status |-> 0, kind |-> "none",
                                             prod |-> Len(products) + 1]]
        /\ UNCHANGED pendBySession
     \/ /\ creq' = [creq EXCEPT ![r] = Finished(500, "db-error", 0)]
        /\ pendBySession' = afterInsertError(pendBySession, creq[r].sid)
        /\ UNCHANGED products
  /\ UNCHANGED <<waVars, priceVars, lockVars, instVars, openaiKey, uploads, now, started>>

ChatClear(r) ==
  /\ creq[r].pc = "chat_clear"
  /\ pendBySession' = clearPending(pendBySession, creq[r].sid)
  /\ creq' = [creq EXCEPT ![r] = Finished(200, "committed", creq[r].resp.prod)]
  /\ UNCHANGED <<waVars, priceVars, lockVars, instVars, openaiKey, products, uploads, now, started>>

\* client.CreateChatCompletion of the no-pending path: an error, a reply
\* without choices (err is nil and err.Error() panics), or a reply
ChatAI(r) ==
  /\ creq[r].pc = "chat_ai"
  /\ \E out \in {"err", "nochoices", "ok"} :
       creq' = [creq EXCEPT ![r] =
                  CASE out = "err" -> Finished(502, "error", 0)
                    [] out = "nochoices" -> Finished(500, "panic", 0)
                    [] OTHER -> Finished(200, "ai", 0)]
  /\ UNCHANGED <<waVars, priceVars, lockVars, instVars, openaiKey, pendBySession, products, uploads, now, started>>

(***************************************************************************)
(* visionUpload                                                            *)
(***************************************************************************)

VisionNoKey(r) ==
  /\ CanStart(r)
  /\ ~openaiKey
  /\ creq' = [creq EXCEPT ![r] = Finished(500, "error", 0)]
  /\ started' = started + 1
  /\ UNCHANGED <<waVars, priceVars, lockVars, instVars, openaiKey, pendBySession, products, uploads, now>>

\* the multipart form does not parse, or it has no image part
VisionBadForm(r) ==
  /\ CanStart(r)
  /\ openaiKey
  /\ creq' = [creq EXCEPT ![r] = Finished(400, "error", 0)]
  /\ started' = started + 1
  /\ UNCHANGED <<waVars, priceVars, lockVars, instVars, openaiKey, pendBySession, products, uploads, now>>

VisionBegin(r) ==
  /\ CanStart(r)
  /\ openaiKey
  /\ \E sid \in SessionIds :
       creq' = [creq EXCEPT ![r] =
                  [IdleReq EXCEPT !.pc = "vision_ai", !.sid = TrimSpace(sid)]]
  /\ started' = started + 1
  /\ UNCHANGED <<waVars, priceVars, lockVars, instVars, openaiKey, pendBySession, products, uploads, now>>

VisionAI(r) ==
  /\ creq[r].pc = "vision_ai"
  /\ \/ creq' = [creq EXCEPT ![r] = Finished(502, "error", 0)]
     \/ creq' = [creq EXCEPT ![r] = Finished(500, "panic", 0)]
     \/ \E reply \in VisionReplies, hint \in Hints :
          creq' = [creq EXCEPT ![r].pc = "vision_save",
                               ![r].sug = suggestFrom(reply, TrimSpace(hint))]
  /\ UNCHANGED <<waVars, priceVars, lockVars, instVars, openaiKey, pendBySession, products, uploads, now, started>>

\* os.MkdirAll and os.WriteFile of prod_<UnixNano><ext>
VisionSave(r) ==
  /\ creq[r].pc = "vision_save"
  /\ \/ /\ uploads' = uploads \cup {now}
        /\ now' = now + 1
        /\ creq' = [creq EXCEPT ![r].pc = "vision_set", ![r].file = now]
     \/ /\ creq' = [creq EXCEPT ![r] = Finished(500, "error", 0)]
        /\ UNCHANGED <<uploads, now>>
  /\ UNCHANGED <<waVars, priceVars, lockVars, instVars, openaiKey, pendBySession, products, started>>

uploadOrg(hdr) ==
  LET h == mustAtoi(TrimSpace(hdr.org)) IN IF h <= 0 THEN 1 ELSE h

uploadFlow(hdr) ==
  LET h == mustAtoi(TrimSpace(hdr.flow)) IN IF h <= 0 THEN 1 ELSE h

newPending(hdr, file, sug) ==
  [OrgID |-> uploadOrg(hdr),
   FlowID |-> uploadFlow(hdr),
   ImagePath |-> <<"uploads", file>>,
   ImageURL |-> <<"/uploads", file>>,
   Suggest |-> sug]

VisionSet(r) ==
  /\ creq[r].pc = "vision_set"
  /\ \E hdr \in Headers :
       pendBySession' = setPending(pendBySession, creq[r].sid,
                                   newPending(hdr, creq[r].file, creq[r].sug))
  /\ creq' = [creq EXCEPT ![r] = Finished(200, "suggest", 0)]
  /\ UNCHANGED <<waVars, priceVars, lockVars, instVars, openaiKey, products, uploads, now, started>>

(***************************************************************************)
(* Instance registry, webhook ingestion and SetWebhook                     *)
(***************************************************************************)

\* webhook / instance requests served in one run
MaxWaReq == 2

WReqs == 1..MaxWaReq

\* the {instance} path parameter: empty, and two instance ids
InstanceIds == {<<>>, <<"i">>, <<"j">>}

\* a JSON field that is absent from the body; fmt.Sprint prints it as <nil>
Nil == <<"nil">>

Sprint(v) == IF v = Nil THEN <<"<", "n", "i", "l", ">">> ELSE v

\* the url and token fields of a SetWebhook body
Urls == {Nil, <<>>, <<"u">>}
Tokens == {Nil, <<"t">>}

\* the X-Org-ID / X-Flow-ID headers of a SetWebhook request
WaHeaders == {h \in Headers : h.flow = <<>>}

\* SQL NULL in the webhook_url column
Null == <<"NULL">>

\* the raw body of an inbound webhook
Payload == <<"{", "}">>

\* AGENT_BACKEND_URL: unset (the hardcoded default is used), a value that
\* already contains /webhook/ or /webhooks/, and a value that http.NewRequest
\* cannot parse
AgentBases == {"unset", "full", "invalid"}

RECURSIVE NatToStr(_)
NatToStr(n) ==
  IF n < 10 THEN <<Digits[n + 1]>> ELSE NatToStr(n \div 10) \o <<Digits[(n % 10) + 1]>>

\* org_id::text
IntToText(n) == IF n < 0 THEN <<"-">> \o NatToStr(0 - n) ELSE NatToStr(n)

parseIntHeader(v, def) ==
  LET t == TrimSpace(v)
      u == Unsigned(t)
  IN IF t = <<>> THEN def
     ELSE IF u # <<>> /\ AllDigits(u)
          THEN (IF Head(t) = "-" THEN 0 - DigitsVal(u) ELSE DigitsVal(u))
          ELSE def

\* an upsert that stores NULL over the webhook URL when none is given
upsertWAInstanceNoCoalesce(reg, instanceID, token, orgID, flowID, webhookURL) ==
  [k \in DOMAIN reg \cup {instanceID} |->
     IF k = instanceID
     THEN [token |-> token, org_id |-> orgID, flow_id |-> flowID,
           webhook_url |-> IF webhookURL = <<>> THEN Null ELSE webhookURL]
     ELSE reg[k]]

\* INSERT ... ON CONFLICT (instance_id) DO UPDATE
upsertWAInstance(reg, instanceID, token, orgID, flowID, webhookURL) ==
  LET excluded == IF webhookURL = <<>> THEN Null ELSE webhookURL
  IN [k \in DOMAIN reg \cup {instanceID} |->
        IF k = instanceID
        THEN [token |-> token, org_id |-> orgID, flow_id |-> flowID,
              webhook_url |->
                IF excluded = Null /\ instanceID \in DOMAIN reg
                THEN reg[instanceID].webhook_url
                ELSE excluded]
        ELSE reg[k]]

ZeroInfo == [Token |-> <<>>, OrgID |-> <<>>, FlowID |-> <<>>]

\* lookupInstanceInfo when the query itself succeeds
lookupInstanceInfo(reg, instance) ==
  LET t == TrimSpace(instance)
  IN IF t = <<>> \/ t \notin DOMAIN reg THEN ZeroInfo
     ELSE [Token |-> reg[t].token,
           OrgID |-> IntToText(reg[t].org_id),
           FlowID |-> IntToText(reg[t].flow_id)]

PathEscape(seg) == ReplaceAll(seg, <<" ">>, <<"%", "2", "0">>)

\* the forward request: destination and headers (an unset header reads as "")
forwardRequest(base, instance, info) ==
  [base |-> IF base = "unset" THEN "default" ELSE base,
   path |-> IF base = "full" THEN <<>> ELSE <<"/webhooks/">> \o PathEscape(instance),
   instance |-> instance,
   token |-> info.Token,
   org |-> info.OrgID,
   flow |-> info.FlowID,
   body |-> Payload]

IdleW ==
  [kind |-> "none", pc |-> "idle", instance |-> <<>>, url |-> <<>>,
   bodyOk |-> TRUE, logged |-> "none", lookup |-> "none", info |-> ZeroInfo,
   fwd |-> "none", wrote |-> "none", prov |-> "none", status |-> 0, ok |-> "none"]

WaInFlight == {q \in WReqs : wreq[q].pc \notin {"idle", "done"}}

CanStartW(r) ==
  /\ wstarted < MaxWaReq
  /\ r = wstarted + 1
  /\ wreq[r].pc = "idle"
  /\ Cardinality(InstInFlight) < MaxInstConc

(***************************************************************************)
(* webhookWa                                                               *)
(***************************************************************************)

\* a handler that takes a request without an instance id like any other
whReceiveAnyInstance(instance, bodyOk) ==
  IF ~bodyOk
  THEN [IdleW EXCEPT !.kind = "webhook", !.pc = "done", !.instance = instance,
                     !.bodyOk = FALSE, !.status = 400]
  ELSE [IdleW EXCEPT !.kind = "webhook", !.pc = "wh_log", !.instance = instance]

\* the instance check and the read of the body
whReceive(instance, bodyOk) ==
  IF instance = <<>>
  THEN [IdleW EXCEPT !.kind = "webhook", !.pc = "done", !.status = 400]
  ELSE IF ~bodyOk
  THEN [IdleW EXCEPT !.kind = "webhook", !.pc = "done", !.instance = instance,
                     !.bodyOk = FALSE, !.status = 400]
  ELSE [IdleW EXCEPT !.kind = "webhook", !.pc = "wh_log", !.instance = instance]

\* the request arrives
WhBegin(r) ==
  /\ CanStartW(r)
  /\ \E instance \in InstanceIds, bodyOk \in BOOLEAN :
       wreq' = [wreq EXCEPT ![r] = whReceive(instance, bodyOk)]
  /\ wstarted' = wstarted + 1
  /\ UNCHANGED <<catVars, priceVars, lockVars, instVars, uazBase, agentBase, wa_instances, webhooks_log, forwards>>

\* INSERT INTO public.webhooks_log; the result is discarded
WhLog(r) ==
  /\ wreq[r].pc = "wh_log"
  /\ \/ /\ webhooks_log' = Append(webhooks_log, [source |-> "uazapi", payload |-> Payload])
        /\ wreq' = [wreq EXCEPT ![r].pc = "wh_lookup", ![r].logged = "ok"]
     \/ /\ UNCHANGED webhooks_log
        /\ wreq' = [wreq EXCEPT ![r].pc = "wh_lookup", ![r].logged = "failed"]
  /\ UNCHANGED <<catVars, priceVars, lockVars, instVars, uazBase, agentBase, wa_instances, forwards, wstarted>>

\* lookupInstanceInfo: a row, no row, or a query error (logged, zero info)
WhLookup(r) ==
  /\ wreq[r].pc = "wh_lookup"
  /\ \/ wreq' = [wreq EXCEPT
                   ![r].pc = "wh_send",
                   ![r].info = lookupInstanceInfo(wa_instances, wreq[r].instance),
                   ![r].lookup = IF TrimSpace(wreq[r].instance) \in DOMAIN wa_instances
                                 THEN "known" ELSE "unknown"]
     \/ wreq' = [wreq EXCEPT ![r].pc = "wh_send", ![r].lookup = "error"]
  /\ UNCHANGED <<catVars, priceVars, lockVars, instVars, uazBase, agentBase, wa_instances, webhooks_log, forwards,
                 wstarted>>

\* a handler that sends the forward again when the transport fails
whResponseRetry(c, out) ==
  IF out = "neterr"
  THEN [c EXCEPT !.pc = "wh_send"]
  ELSE [IdleW EXCEPT !.kind = "webhook", !.pc = "done", !.instance = c.instance,
                     !.fwd = out, !.status = 202]

\* an acknowledgement that reports a failed forward as 502
whResponseBadGateway(c, out) ==
  [IdleW EXCEPT !.kind = "webhook", !.pc = "done", !.instance = c.instance,
                !.fwd = out,
                !.status = IF out \in {"builderr", "neterr"} THEN 502 ELSE 202]

\* the 202 acknowledgement, with what became of the forward; a finished
\* request keeps its response and the instance it was for
whResponse(c, out) ==
  [IdleW EXCEPT !.kind = "webhook", !.pc = "done", !.instance = c.instance,
                !.fwd = out, !.status = 202]

\* http.NewRequest and the start of http.DefaultClient.Do
WhSend(r) ==
  /\ wreq[r].pc = "wh_send"
  /\ IF agentBase = "invalid"
     THEN /\ wreq' = [wreq EXCEPT ![r] = whResponse(wreq[r], "builderr")]
          /\ UNCHANGED forwards
     ELSE /\ forwards' = Append(forwards,
                                forwardRequest(agentBase, wreq[r].instance, wreq[r].info))
          /\ wreq' = [wreq EXCEPT ![r].pc = "wh_await", ![r].fwd = "sent"]
  /\ UNCHANGED <<catVars, priceVars, lockVars, instVars, uazBase, agentBase, wa_instances, webhooks_log, wstarted>>

\* http.DefaultClient.Do returns: the agent has answered, or the transport
\* has failed.  The client has no timeout and the request no context, so this
\* happens when the downstream lets it happen.
WhReturn(r) ==
  /\ wreq[r].pc = "wh_await"
  /\ \E out \in {"neterr", "replied"} :
       wreq' = [wreq EXCEPT ![r] = whResponse(wreq[r], out)]
  /\ UNCHANGED <<catVars, priceVars, lockVars, instVars, uazBase, agentBase, wa_instances, webhooks_log, forwards,
                 wstarted>>

(***************************************************************************)
(* waSetWebhook                                                            *)
(***************************************************************************)

SwBadRequest(r) ==
  /\ CanStartW(r)
  /\ wreq' = [wreq EXCEPT ![r] =
                [IdleW EXCEPT !.kind = "setwebhook", !.pc = "done", !.status = 400]]
  /\ wstarted' = wstarted + 1
  /\ UNCHANGED <<catVars, priceVars, lockVars, instVars, uazBase, agentBase, wa_instances, webhooks_log, forwards>>

\* the response of the unconfigured mode, or the wait for the provider
swAfterUpsert(instance, webhookURL, wrote, configured) ==
  IF ~configured
  THEN [IdleW EXCEPT !.kind = "setwebhook", !.pc = "done", !.status = 200,
                     !.ok = "true"]
  ELSE [IdleW EXCEPT !.kind = "setwebhook", !.pc = "sw_provider",
                     !.instance = instance, !.url = webhookURL, !.wrote = wrote]

\* the request up to the provider call: body decode, the upsert (its error is
\* discarded) and the configured() check
SwBegin(r) ==
  /\ CanStartW(r)
  /\ \E instance \in InstanceIds \ {<<>>}, url \in Urls, token \in Tokens,
        hdr \in WaHeaders :
       LET webhookURL == TrimSpace(Sprint(url))
       IN \/ /\ wa_instances' =
                   upsertWAInstance(wa_instances, instance, TrimSpace(Sprint(token)),
                                    parseIntHeader(hdr.org, 1),
                                    parseIntHeader(hdr.flow, 1), webhookURL)
             /\ wreq' = [wreq EXCEPT ![r] =
                           swAfterUpsert(instance, webhookURL, "ok", uazBase)]
          \/ /\ UNCHANGED wa_instances
             /\ wreq' = [wreq EXCEPT ![r] =
                           swAfterUpsert(instance, webhookURL, "failed", uazBase)]
  /\ wstarted' = wstarted + 1
  /\ UNCHANGED <<catVars, priceVars, lockVars, instVars, uazBase, agentBase, webhooks_log, forwards>>

\* the response after uaz.doJSON: 502 on a transport error; otherwise 200
\* with the provider's JSON body, or {"ok": 2xx?} when it has none
swResponse(c, out) ==
  LET d == [IdleW EXCEPT !.kind = "setwebhook", !.pc = "done"]
      ok2xx == out.status >= 200 /\ out.status < 300
  IN CASE out.err -> [d EXCEPT !.prov = "neterr", !.status = 502]
       [] OTHER ->
            [d EXCEPT !.prov = IF ok2xx THEN "ok" ELSE "error",
                      !.status = 200,
                      !.ok = IF out.json THEN "provider"
                             ELSE IF ok2xx THEN "true" ELSE "false"]

ProviderOutcomes ==
  {[err |-> TRUE, status |-> 0, json |-> FALSE]}
    \cup [err : {FALSE}, status : {200, 500}, json : BOOLEAN]

SwProvider(r) ==
  /\ wreq[r].pc = "sw_provider"
  /\ \E out \in ProviderOutcomes :
       wreq' = [wreq EXCEPT ![r] = swResponse(wreq[r], out)]
  /\ UNCHANGED <<catVars, priceVars, lockVars, instVars, uazBase, agentBase, wa_instances, webhooks_log, forwards,
                 wstarted>>

(***************************************************************************)
(* Specifications                                                          *)
(***************************************************************************)

\* the webhook / instance side starts with an empty registry; the chat /
\* vision side is at rest
WaInit ==
  /\ uazBase \in BOOLEAN
  /\ agentBase \in AgentBases
  /\ wa_instances = << >>
  /\ webhooks_log = << >>
  /\ forwards = << >>
  /\ wstarted = 0
  /\ wreq = [r \in WReqs |-> IdleW]
  /\ openaiKey = FALSE
  /\ pendBySession = << >>
  /\ products = << >>
  /\ uploads = {}
  /\ now = 1
  /\ started = 0
  /\ creq = [r \in Reqs |-> IdleReq]
  /\ priceIn = <<>>
  /\ priceOut = NoPrice
  /\ pendMu = 0
  /\ istarted = 0
  /\ ireq = [r \in IReqs |-> IdleI]

WaNext ==
  \E r \in WReqs :
    \/ WhBegin(r)
    \/ WhLog(r)
    \/ WhLookup(r)
    \/ WhSend(r)
    \/ WhReturn(r)
    \/ SwBadRequest(r)
    \/ SwBegin(r)
    \/ SwProvider(r)

WaSpec == WaInit /\ [][WaNext]_vars

\* Every step of a handler is taken once it can be: the Go scheduler runs
\* every goroutine, database calls return, and the provider client has a
\* 35 s timeout.  Nothing makes a request arrive, and nothing makes the
\* downstream agent answer a forward (WhReturn).
WaFairSpec ==
  /\ WaSpec
  /\ \A r \in WReqs :
       /\ WF_vars(WhLog(r))
       /\ WF_vars(WhLookup(r))
       /\ WF_vars(WhSend(r))
       /\ WF_vars(SwProvider(r))

(***************************************************************************)
(* Instance handlers: waCreateInstance, waInstanceStatus, waInstanceQR,    *)
(* waSendText                                                              *)
(***************************************************************************)

\* the name field of a create body: missing, blank, and a name with a capital
\* and a space
Names == {<<>>, <<" ">>, <<"R", " ">>}

\* what randToken returns.  It reseeds math/rand from the clock on every
\* call, so two calls can return the same string.
RandTokens == {<<"x">>, <<"y">>}

\* the instance id built from the name and a random suffix
generatedId(name, suffix) ==
  ToLower(ReplaceAll(name, <<" ">>, <<"-">>)) \o <<"-">> \o suffix

\* pickStr on a key that is absent gives ""
pickStr(v) == IF v = Nil THEN <<>> ELSE v

\* the provider's answer to POST /instances: a transport error, or a body
\* with or without an instance id and a token, which are flat top-level keys
\* or fields of a nested "instance" object
CreateOutcomes ==
  {[err |-> TRUE, id |-> Nil, token |-> Nil, nested |-> FALSE]}
    \cup [err : {FALSE}, id : {Nil, <<"i">>}, token : {Nil, <<"t">>},
          nested : BOOLEAN]

\* what pickStr sees of a field: pickStr reads top-level keys of the types
\* string and number, so a field of a nested object is absent to it
topLevel(out, v) == IF out.nested THEN Nil ELSE v

\* the provider's answer to a GET or to send/text: a transport error, or a
\* status with or without a body
CallOutcomes ==
  {[err |-> TRUE, status |-> 0, body |-> FALSE]}
    \cup [err : {FALSE}, status : {200, 500}, body : BOOLEAN]

Is2xx(out) == ~out.err /\ out.status >= 200 /\ out.status < 300

CanStartI(r) ==
  /\ istarted < MaxInstReq
  /\ r = istarted + 1
  /\ ireq[r].pc = "idle"
  /\ Cardinality(InstInFlight) + Cardinality(WaInFlight) < MaxInstConc

\* the handler has written its response
Reply(c, status, body) == [c EXCEPT !.pc = "reply", !.status = status, !.body = body]

\* the handler has returned: its locals and its response are gone
Returned(c) == [IdleI EXCEPT !.pc = "done"]

IReturn(r) ==
  /\ ireq[r].pc = "reply"
  /\ ireq' = [ireq EXCEPT ![r] = Returned(ireq[r])]
  /\ UNCHANGED <<catVars, waVars, priceVars, lockVars, istarted>>

\* a gateway that goes to the provider whether or not a base URL is set
gatewayAlwaysProvider(c, configured, mockBody, providerPc) ==
  [c EXCEPT !.pc = providerPc]

\* uaz.configured(): without a base URL the mock result, else the provider
gateway(c, configured, mockBody, providerPc) ==
  IF ~configured THEN Reply(c, 200, mockBody) ELSE [c EXCEPT !.pc = providerPc]

(* waCreateInstance *)

\* a check that takes every name
validNameAlways(name) == TRUE

\* the name check of the body
validName(name) == TrimSpace(name) # <<>>

\* the body does not decode (the name is not read), or the name is blank
CrBadRequest(r) ==
  /\ CanStartI(r)
  /\ \E name \in {n \in Names : ~validName(n)} :
       ireq' = [ireq EXCEPT ![r] =
                  Reply([IdleI EXCEPT !.kind = "create", !.name = name], 400, "error")]
  /\ istarted' = istarted + 1
  /\ UNCHANGED <<catVars, waVars, priceVars, lockVars>>

\* the registry after the mock branch's upsert, whose error is discarded
createMock(reg, c, suffix, tok, ok) ==
  IF ok
  THEN upsertWAInstance(reg, generatedId(c.name, suffix), tok, c.org, c.flow, <<>>)
  ELSE reg

\* the request up to the configured() check, and the whole mock branch
CrBegin(r) ==
  /\ CanStartI(r)
  /\ \E name \in {n \in Names : validName(n)}, hdr \in WaHeaders :
       LET c == [IdleI EXCEPT !.kind = "create", !.name = name,
                              !.org = parseIntHeader(hdr.org, 1),
                              !.flow = parseIntHeader(hdr.flow, 1)]
       IN IF uazBase
          THEN /\ ireq' = [ireq EXCEPT ![r] = [c EXCEPT !.pc = "cr_provider"]]
               /\ UNCHANGED wa_instances
          ELSE \E suffix \in RandTokens, tok \in RandTokens, ok \in BOOLEAN :
                 /\ wa_instances' = createMock(wa_instances, c, suffix, tok, ok)
                 /\ ireq' = [ireq EXCEPT ![r] =
                               Reply([c EXCEPT !.instance = generatedId(name, suffix),
                                               !.token = tok,
                                               !.wrote = IF ok THEN "ok" ELSE "failed"],
                                     201, "mock-connect")]
  /\ istarted' = istarted + 1
  /\ UNCHANGED <<catVars, priceVars, lockVars, uazBase, agentBase, webhooks_log, forwards,
                 wstarted, wreq>>

\* the provider's answer: instance id and token are picked from it, the row
\* is upserted when there is a token, and the answer is passed on with 201
CrProvider(r) ==
  /\ ireq[r].pc = "cr_provider"
  /\ \E out \in CreateOutcomes :
       IF out.err
       THEN /\ ireq' = [ireq EXCEPT ![r] = Reply(ireq[r], 502, "error")]
            /\ UNCHANGED wa_instances
       ELSE \E suffix \in RandTokens, ok \in BOOLEAN :
              LET instanceID == IF pickStr(topLevel(out, out.id)) = <<>>
                                THEN generatedId(ireq[r].name, suffix)
                                ELSE pickStr(topLevel(out, out.id))
                  token == pickStr(topLevel(out, out.token))
                  wrote == IF token = <<>> THEN "none"
                           ELSE IF ok THEN "ok" ELSE "failed"
              IN /\ wa_instances' =
                      IF wrote = "ok"
                      THEN upsertWAInstance(wa_instances, instanceID, token,
                                            ireq[r].org, ireq[r].flow, <<>>)
                      ELSE wa_instances
                 /\ ireq' = [ireq EXCEPT ![r] =
                               Reply([ireq[r] EXCEPT !.instance = instanceID,
                                                     !.token = token,
                                                     !.sent = pickStr(out.token),
                                                     !.wrote = wrote],
                                     201, "provider")]
  /\ UNCHANGED <<catVars, priceVars, lockVars, istarted, uazBase, agentBase, webhooks_log,
                 forwards, wstarted, wreq>>

(* waInstanceStatus *)

StBegin(r) ==
  /\ CanStartI(r)
  /\ \E instance \in InstanceIds :
       ireq' = [ireq EXCEPT ![r] =
                  IF TrimSpace(instance) = <<>>
                  THEN Reply([IdleI EXCEPT !.kind = "status"], 400, "error")
                  ELSE gateway([IdleI EXCEPT !.kind = "status", !.instance = instance],
                               uazBase, "waiting-qr", "st_provider")]
  /\ istarted' = istarted + 1
  /\ UNCHANGED <<catVars, waVars, priceVars, lockVars>>

\* the provider's status body as decoded: not JSON (or empty), or an object
\* with or without a top-level status, a top-level state, and a connect
\* object with or without status and state
StatusShapes ==
  { [json |-> FALSE, status |-> Nil, state |-> Nil,
     hasConnect |-> FALSE, connectStatus |-> Nil, connectState |-> Nil],
    [json |-> TRUE, status |-> <<"s">>, state |-> Nil,
     hasConnect |-> FALSE, connectStatus |-> Nil, connectState |-> Nil],
    [json |-> TRUE, status |-> Nil, state |-> <<"s">>,
     hasConnect |-> FALSE, connectStatus |-> Nil, connectState |-> Nil],
    [json |-> TRUE, status |-> Nil, state |-> Nil,
     hasConnect |-> TRUE, connectStatus |-> <<"s">>, connectState |-> Nil],
    [json |-> TRUE, status |-> Nil, state |-> Nil,
     hasConnect |-> TRUE, connectStatus |-> Nil, connectState |-> <<"s">>],
    [json |-> TRUE, status |-> Nil, state |-> <<"s">>,
     hasConnect |-> TRUE, connectStatus |-> Nil, connectState |-> Nil],
    [json |-> TRUE, status |-> Nil, state |-> Nil,
     hasConnect |-> FALSE, connectStatus |-> Nil, connectState |-> Nil] }

\* pickStr(m, k1, k2): the first key with a value
pickFirst(a, b) == IF pickStr(a) # <<>> THEN pickStr(a) ELSE pickStr(b)

\* the status field of the normalized result; <<>> when it has none
statusField(shape) ==
  IF pickStr(shape.status) # <<>> THEN pickStr(shape.status)
  ELSE IF shape.hasConnect
       THEN pickFirst(shape.connectStatus, shape.connectState)
       ELSE pickStr(shape.state)

StProvider(r) ==
  /\ ireq[r].pc = "st_provider"
  /\ \/ ireq' = [ireq EXCEPT ![r] = Reply(ireq[r], 502, "error")]
     \/ \E shape \in StatusShapes :
          ireq' = [ireq EXCEPT ![r] =
                     Reply([ireq[r] EXCEPT !.st = statusField(shape)], 200, "provider")]
  /\ UNCHANGED <<catVars, waVars, priceVars, lockVars, istarted>>

(* waInstanceQR *)

QrBegin(r) ==
  /\ CanStartI(r)
  /\ \E instance \in InstanceIds :
       ireq' = [ireq EXCEPT ![r] =
                  IF TrimSpace(instance) = <<>>
                  THEN Reply([IdleI EXCEPT !.kind = "qr"], 400, "error")
                  ELSE gateway([IdleI EXCEPT !.kind = "qr", !.instance = instance],
                               uazBase, "mock-qr", "qr_first")]
  /\ istarted' = istarted + 1
  /\ UNCHANGED <<catVars, waVars, priceVars, lockVars>>

\* lastBody after one round of the loop: kept on a transport error, else the
\* body just read
lastBody(last, out) ==
  IF out.err THEN last ELSE IF out.body THEN "provider-error-body" ELSE "none"

\* the fallback after the loop
qrFallback(c, last) ==
  IF last # "none" THEN Reply(c, 200, last) ELSE Reply(c, 200, "waiting-qr")

\* GET .../qr
QrFirst(r) ==
  /\ ireq[r].pc = "qr_first"
  /\ \E out \in CallOutcomes :
       ireq' = [ireq EXCEPT ![r] =
                  IF Is2xx(out) /\ out.body
                  THEN Reply(ireq[r], 200, "provider-qr")
                  ELSE [ireq[r] EXCEPT !.pc = "qr_second",
                                       !.last = lastBody(ireq[r].last, out)]]
  /\ UNCHANGED <<catVars, waVars, priceVars, lockVars, istarted>>

\* GET .../qrcode, and the fallback when it does not give a QR either
QrSecond(r) ==
  /\ ireq[r].pc = "qr_second"
  /\ \E out \in CallOutcomes :
       ireq' = [ireq EXCEPT ![r] =
                  IF Is2xx(out) /\ out.body
                  THEN Reply(ireq[r], 200, "provider-qrcode")
                  ELSE qrFallback(ireq[r], lastBody(ireq[r].last, out))]
  /\ UNCHANGED <<catVars, waVars, priceVars, lockVars, istarted>>

(* waSendText *)

\* blank instance, undecodable body, or blank to / text
SdBadRequest(r) ==
  /\ CanStartI(r)
  /\ ireq' = [ireq EXCEPT ![r] = Reply([IdleI EXCEPT !.kind = "send"], 400, "error")]
  /\ istarted' = istarted + 1
  /\ UNCHANGED <<catVars, waVars, priceVars, lockVars>>

SdBegin(r) ==
  /\ CanStartI(r)
  /\ \E instance \in InstanceIds \ {<<>>} :
       ireq' = [ireq EXCEPT ![r] =
                  gateway([IdleI EXCEPT !.kind = "send", !.instance = instance],
                          uazBase, "mock-send", "sd_provider")]
  /\ istarted' = istarted + 1
  /\ UNCHANGED <<catVars, waVars, priceVars, lockVars>>

SdProvider(r) ==
  /\ ireq[r].pc = "sd_provider"
  /\ \E out \in CallOutcomes :
       ireq' = [ireq EXCEPT ![r] =
                  IF out.err THEN Reply(ireq[r], 502, "error")
                  ELSE IF out.status >= 400 THEN Reply(ireq[r], 503, "error")
                  ELSE Reply(ireq[r], 200, "provider")]
  /\ UNCHANGED <<catVars, waVars, priceVars, lockVars, istarted>>

\* the instance handlers and SetWebhook start on an empty registry, in mock
\* or in configured mode
InstInit ==
  /\ uazBase \in BOOLEAN
  /\ agentBase = "unset"
  /\ wa_instances = << >>
  /\ webhooks_log = << >>
  /\ forwards = << >>
  /\ wstarted = 0
  /\ wreq = [r \in WReqs |-> IdleW]
  /\ istarted = 0
  /\ ireq = [r \in IReqs |-> IdleI]
  /\ openaiKey = FALSE
  /\ pendBySession = << >>
  /\ products = << >>
  /\ uploads = {}
  /\ now = 1
  /\ started = 0
  /\ creq = [r \in Reqs |-> IdleReq]
  /\ priceIn = <<>>
  /\ priceOut = NoPrice
  /\ pendMu = 0

InstNext ==
  \/ \E r \in IReqs :
       \/ CrBadRequest(r)
       \/ CrBegin(r)
       \/ CrProvider(r)
       \/ StBegin(r)
       \/ StProvider(r)
       \/ QrBegin(r)
       \/ QrFirst(r)
       \/ QrSecond(r)
       \/ SdBadRequest(r)
       \/ SdBegin(r)
       \/ SdProvider(r)
       \/ IReturn(r)
  \/ \E r \in WReqs :
       \/ SwBadRequest(r)
       \/ SwBegin(r)
       \/ SwProvider(r)

InstSpec == InstInit /\ [][InstNext]_vars

(***************************************************************************)
(* parsePriceToCents on its own                                            *)
(***************************************************************************)

\* longest text tried in full
MaxPriceLen == 4

\* digits, comma, period, minus, space and the two characters of R$
PriceAlphabet == {"0", "1", "9", ",", ".", "-", " ", "R", "$"}

\* the texts of the documented examples
PriceExamples ==
  { <<"1", "2", "9", ",", "9", "0">>,
    <<"1", ".", "2", "3", "4", ",", "5", "6">>,
    <<"1", "2", "9", ".", "9", "0">>,
    <<"R", "$", " ", "1", "2", ",", "3", "4">>,
    <<"a", "b", "c">> }

PriceInputs ==
  PriceExamples \cup UNION {[1..n -> PriceAlphabet] : n \in 0..MaxPriceLen}

PriceCall ==
  /\ priceOut = NoPrice
  /\ priceOut' = parsePriceToCents(priceIn)
  /\ UNCHANGED <<catVars, waVars, instVars, lockVars, priceIn>>

PriceInit ==
  /\ priceIn \in PriceInputs
  /\ priceOut = NoPrice
  /\ pendMu = 0
  /\ istarted = 0
  /\ ireq = [r \in IReqs |-> IdleI]
  /\ openaiKey = FALSE
  /\ pendBySession = << >>
  /\ products = << >>
  /\ uploads = {}
  /\ now = 1
  /\ started = 0
  /\ creq = [r \in Reqs |-> IdleReq]
  /\ uazBase = FALSE
  /\ agentBase = "unset"
  /\ wa_instances = << >>
  /\ webhooks_log = << >>
  /\ forwards = << >>
  /\ wstarted = 0
  /\ wreq = [r \in WReqs |-> IdleW]

PriceNext == PriceCall

PriceSpec == PriceInit /\ [][PriceNext]_vars

\* the chat / vision side starts with no draft, no product and no upload; the
\* webhook / instance side is at rest
CatInit ==
  /\ openaiKey \in BOOLEAN
  /\ pendBySession = << >>
  /\ products = << >>
  /\ uploads = {}
  /\ now = 1
  /\ started = 0
  /\ creq = [r \in Reqs |-> IdleReq]
  /\ uazBase = FALSE
  /\ agentBase = "unset"
  /\ wa_instances = << >>
  /\ webhooks_log = << >>
  /\ forwards = << >>
  /\ wstarted = 0
  /\ wreq = [r \in WReqs |-> IdleW]
  /\ priceIn = <<>>
  /\ priceOut = NoPrice
  /\ pendMu = 0
  /\ istarted = 0
  /\ ireq = [r \in IReqs |-> IdleI]

CatNext ==
  \E r \in Reqs :
    \/ ChatNoKey(r)
    \/ ChatBadJSON(r)
    \/ ChatBegin(r)
    \/ ChatLookup(r)
    \/ ChatInsert(r)
    \/ ChatClear(r)
    \/ ChatAI(r)
    \/ VisionNoKey(r)
    \/ VisionBadForm(r)
    \/ VisionBegin(r)
    \/ VisionAI(r)
    \/ VisionSave(r)
    \/ VisionSet(r)

CatSpec == CatInit /\ [][CatNext]_vars

(***************************************************************************)
(* chatHandler and visionUpload with the steps of pendMu: a call of        *)
(* getPending, setPending or clearPending is the Lock, and then the map    *)
(* operation with the deferred Unlock.                                     *)
(***************************************************************************)

\* the positions at which a handler is inside a session store function
StorePcs == {"chat_recv", "chat_clear", "vision_set"}

\* the positions at which a handler waits for the database, the model or the
\* file system
IoPcs == {"chat_insert", "chat_ai", "vision_ai", "vision_save"}

\* the session ids, messages and headers of the requests of this
\* specification
LockSessionIds == {<<"a">>}
LockMessages == {<<"1", ",", "5">>, <<"a", "b">>}
LockHeaders == [org |-> <<>>, flow |-> <<>>]

\* the vision reply of the uploads of this specification
LockReply ==
  [jsonErr |-> FALSE,
   sug |-> [Title |-> <<"T">>, Description |-> <<"D">>, Category |-> <<"C">>,
            Tags |-> <<>>]]

\* a store function that returns without the Unlock
unlockNever(holder) == holder

\* defer pendMu.Unlock()
unlock(holder) == 0

LkChatBegin(r) ==
  /\ CanStart(r)
  /\ openaiKey
  /\ \E sid \in LockSessionIds, msg \in LockMessages :
       creq' = [creq EXCEPT ![r] =
                  [IdleReq EXCEPT !.pc = "chat_recv", !.sid = sid, !.msg = msg]]
  /\ started' = started + 1
  /\ UNCHANGED <<waVars, priceVars, instVars, lockVars, openaiKey, pendBySession, products, uploads, now>>

LkVisionBegin(r) ==
  /\ CanStart(r)
  /\ openaiKey
  /\ \E sid \in LockSessionIds :
       creq' = [creq EXCEPT ![r] =
                  [IdleReq EXCEPT !.pc = "vision_ai", !.sid = TrimSpace(sid)]]
  /\ started' = started + 1
  /\ UNCHANGED <<waVars, priceVars, instVars, lockVars, openaiKey, pendBySession, products, uploads, now>>

\* pendMu.Lock() returns
LkAcquire(r) ==
  /\ creq[r].pc \in StorePcs
  /\ pendMu = 0
  /\ pendMu' = r
  /\ UNCHANGED <<catVars, waVars, priceVars, instVars>>

\* getPending under the lock, and the Unlock
LkGet(r) ==
  /\ creq[r].pc = "chat_recv"
  /\ pendMu = r
  /\ creq' = [creq EXCEPT ![r].pc = "chat_got",
                          ![r].p = getPending(pendBySession, creq[r].sid).p]
  /\ pendMu' = unlock(r)
  /\ UNCHANGED <<waVars, priceVars, instVars, openaiKey, pendBySession, products, uploads, now, started>>

\* the session store as getPending showed it to the request
seen(sid, p) == IF p = NoDraft THEN << >> ELSE [k \in {sid} |-> p]

\* the price parse and the choice of the branch, on what getPending returned
LkRoute(r) ==
  /\ creq[r].pc = "chat_got"
  /\ creq' = [creq EXCEPT ![r] =
                chatAfterLookup(creq[r].sid, creq[r].msg, LockHeaders,
                                seen(creq[r].sid, creq[r].p))]
  /\ UNCHANGED <<waVars, priceVars, instVars, lockVars, openaiKey, pendBySession, products, uploads, now, started>>

\* clearPending under the lock, the Unlock, and the response
LkClear(r) ==
  /\ creq[r].pc = "chat_clear"
  /\ pendMu = r
  /\ pendBySession' = clearPending(pendBySession, creq[r].sid)
  /\ creq' = [creq EXCEPT ![r] = Finished(200, "committed", creq[r].resp.prod)]
  /\ pendMu' = unlock(r)
  /\ UNCHANGED <<waVars, priceVars, instVars, openaiKey, products, uploads, now, started>>

\* the vision call: an error, or a reply that decodes
LkVisionAI(r) ==
  /\ creq[r].pc = "vision_ai"
  /\ \/ creq' = [creq EXCEPT ![r] = Finished(502, "error", 0)]
     \/ creq' = [creq EXCEPT ![r].pc = "vision_save",
                             ![r].sug = suggestFrom(LockReply, <<>>)]
  /\ UNCHANGED <<waVars, priceVars, instVars, lockVars, openaiKey, pendBySession, products, uploads, now, started>>

\* setPending under the lock, the Unlock, and the response
LkSet(r) ==
  /\ creq[r].pc = "vision_set"
  /\ pendMu = r
  /\ pendBySession' = setPending(pendBySession, creq[r].sid,
                                 newPending(LockHeaders, creq[r].file, creq[r].sug))
  /\ creq' = [creq EXCEPT ![r] = Finished(200, "suggest", 0)]
  /\ pendMu' = unlock(r)
  /\ UNCHANGED <<waVars, priceVars, instVars, openaiKey, products, uploads, now, started>>

LockInit ==
  /\ openaiKey = TRUE
  /\ pendBySession = << >>
  /\ products = << >>
  /\ uploads = {}
  /\ now = 1
  /\ started = 0
  /\ creq = [r \in Reqs |-> IdleReq]
  /\ uazBase = FALSE
  /\ agentBase = "unset"
  /\ wa_instances = << >>
  /\ webhooks_log = << >>
  /\ forwards = << >>
  /\ wstarted = 0
  /\ wreq = [r \in WReqs |-> IdleW]
  /\ priceIn = <<>>
  /\ priceOut = NoPrice
  /\ pendMu = 0
  /\ istarted = 0
  /\ ireq = [r \in IReqs |-> IdleI]

LockNext ==
  \E r \in Reqs :
    \/ LkChatBegin(r)
    \/ LkVisionBegin(r)
    \/ LkAcquire(r)
    \/ LkGet(r)
    \/ LkRoute(r)
    \/ ChatInsert(r)
    \/ LkClear(r)
    \/ ChatAI(r)
    \/ LkVisionAI(r)
    \/ VisionSave(r)
    \/ LkSet(r)

LockSpec == LockInit /\ [][LockNext]_vars

\* A goroutine that holds pendMu runs its map operation and the deferred
\* Unlock, which cannot block; sync.Mutex hands the lock to a goroutine that
\* keeps waiting for it.  Nothing makes the database, the model or the file
\* system answer, and nothing makes a request arrive.
LockFairSpec ==
  /\ LockSpec
  /\ \A r \in Reqs :
       /\ WF_vars(LkGet(r))
       /\ WF_vars(LkClear(r))
       /\ WF_vars(LkSet(r))
       /\ SF_vars(LkAcquire(r))

(***************************************************************************)
(* The three groups of handlers in one specification.  It starts in a      *)
(* state in which two of the groups have served all their requests with a  *)
(* validation or configuration error, which leaves nothing behind, and the *)
(* third has served none.                                                  *)
(***************************************************************************)

AllInit ==
  /\ pendBySession = << >>
  /\ products = << >>
  /\ uploads = {}
  /\ now = 1
  /\ wa_instances = << >>
  /\ webhooks_log = << >>
  /\ forwards = << >>
  /\ priceIn = <<>>
  /\ priceOut = NoPrice
  /\ pendMu = 0
  /\ \E phase \in {"chat", "webhook", "instance"} :
       /\ openaiKey \in (IF phase = "chat" THEN BOOLEAN ELSE {FALSE})
       /\ uazBase \in (IF phase = "chat" THEN {FALSE} ELSE BOOLEAN)
       /\ agentBase \in (IF phase = "webhook" THEN AgentBases ELSE {"unset"})
       /\ started = IF phase = "chat" THEN 0 ELSE MaxReq
       /\ creq = [r \in Reqs |-> IF phase = "chat" THEN IdleReq
                                 ELSE Finished(500, "error", 0)]
       /\ wstarted = IF phase = "webhook" THEN 0 ELSE MaxWaReq
       /\ wreq = [r \in WReqs |-> IF phase = "webhook" THEN IdleW
                                  ELSE whReceive(<<>>, TRUE)]
       /\ istarted = IF phase = "instance" THEN 0 ELSE MaxInstReq
       /\ ireq = [r \in IReqs |-> IF phase = "instance" THEN IdleI
                                  ELSE Returned(IdleI)]

AllNext ==
  \/ \E r \in Reqs :
       \/ ChatNoKey(r)
       \/ ChatBadJSON(r)
       \/ ChatBegin(r)
       \/ ChatLookup(r)
       \/ ChatInsert(r)
       \/ ChatClear(r)
       \/ ChatAI(r)
       \/ VisionNoKey(r)
       \/ VisionBadForm(r)
       \/ VisionBegin(r)
       \/ VisionAI(r)
       \/ VisionSave(r)
       \/ VisionSet(r)
  \/ \E r \in WReqs :
       \/ WhBegin(r)
       \/ WhLog(r)
       \/ WhLookup(r)
       \/ WhSend(r)
       \/ WhReturn(r)
       \/ SwBadRequest(r)
       \/ SwBegin(r)
       \/ SwProvider(r)
  \/ \E r \in IReqs :
       \/ CrBadRequest(r)
       \/ CrBegin(r)
       \/ CrProvider(r)
       \/ StBegin(r)
       \/ StProvider(r)
       \/ QrBegin(r)
       \/ QrFirst(r)
       \/ QrSecond(r)
       \/ SdBadRequest(r)
       \/ SdBegin(r)
       \/ SdProvider(r)
       \/ IReturn(r)

AllSpec == AllInit /\ [][AllNext]_vars

(***************************************************************************)
(* Steps of a chat request, as seen from one state to the next             *)
(***************************************************************************)

LookupStep(r) == creq[r].pc = "chat_recv" /\ creq'[r].pc # "chat_recv"

InsertStep(r) == creq[r].pc = "chat_insert" /\ creq'[r].pc # "chat_insert"

ClearStep(r) == creq[r].pc = "chat_clear" /\ creq'[r].pc # "chat_clear"

Inserted == Len(products') = Len(products) + 1

LastRow == products'[Len(products')]

\* the message of r parses as a price
Parseable(r) == parsePriceToCents(TrimSpace(creq[r].msg)).ok

\* r looks up a session id that has a pending draft
OnOpenSession(r) == creq[r].sid \in DOMAIN pendBySession

(***************************************************************************)
(* C2                                                                      *)
(***************************************************************************)

\* the lookup of a parseable price on an open session hands the stored draft
\* and the parsed price to the insert
C2Lookup(r) ==
  LookupStep(r) /\ OnOpenSession(r) /\ Parseable(r)
    => /\ creq'[r].pc = "chat_insert"
       /\ creq'[r].p = pendBySession[creq[r].sid]
       /\ creq'[r].cents = parsePriceToCents(TrimSpace(creq[r].msg)).cents
       /\ products' = products

\* the row the insert adds carries the parsed price and the draft's image URL
C2Row(r) ==
  /\ products' = Append(products, LastRow)
  /\ LastRow.price_cents = creq[r].cents
  /\ LastRow.image_base64 = creq[r].p.ImageURL
  /\ creq'[r].pc = "chat_clear"
  /\ creq'[r].resp.prod = Len(products')

\* after the clear no pending session exists for the id, and the request
\* answers with the record
C2Clear(r) ==
  ClearStep(r)
    => /\ creq[r].sid \notin DOMAIN pendBySession'
       /\ products' = products
       /\ creq'[r].resp = [status |-> 200, kind |-> "committed",
                           prod |-> creq[r].resp.prod]

\* C2 as stated: for every non-empty session id, a TryCommit with a parseable
\* price on the session just opened produces exactly one catalog record with
\* the parsed price and the session's image URL, and leaves no pending session
\* for that id.
C2_Original ==
  [][\A r \in Reqs :
       /\ C2Lookup(r)
       /\ InsertStep(r) => Inserted /\ C2Row(r)
       /\ C2Clear(r)]_catVars

\* C2 as amended: the same, for a commit whose catalog insert succeeds; a
\* failed insert adds no record and the request ends with a server error.
C2_Commit ==
  [][\A r \in Reqs :
       /\ C2Lookup(r)
       /\ InsertStep(r) =>
            IF Inserted THEN C2Row(r)
            ELSE /\ products' = products
                 /\ creq'[r].pc = "done" /\ creq'[r].resp.status = 500
       /\ C2Clear(r)]_catVars

\* a chat request has committed a record at the parsed price 1,5 and no
\* pending session is left
C2_Witness ==
  \E r \in Reqs :
    /\ creq[r].pc = "done" /\ creq[r].resp.kind = "committed"
    /\ products[creq[r].resp.prod].price_cents = 150
    /\ DOMAIN pendBySession = {}

(***************************************************************************)
(* C3                                                                      *)
(***************************************************************************)

\* C3: one pending draft yields at most one catalog record, however the chat
\* requests on its session id interleave.  A draft is identified by its image
\* file, which is written once per upload.
C3_OneRecordPerDraft ==
  \A i, j \in 1..Len(products) :
    products[i].image_base64 = products[j].image_base64 => i = j

(***************************************************************************)
(* C4                                                                      *)
(***************************************************************************)

\* C4: a message that does not parse as a price, on an open session, is not
\* committed: the request ends without a record, and the pending sessions are
\* as they were, every field of every draft included.
C4_ParseFailureKeepsSession ==
  [][\A r \in Reqs :
       LookupStep(r) /\ OnOpenSession(r) /\ ~Parseable(r)
         => /\ creq'[r].pc = "done"
            /\ creq'[r].resp.kind # "committed"
            /\ creq'[r].resp.prod = 0
            /\ products' = products
            /\ pendBySession' = pendBySession]_catVars

\* a request was re-prompted and the session it was about is still pending
C4_Witness ==
  \E r \in Reqs :
    /\ creq[r].pc = "done" /\ creq[r].resp.kind = "reprompt"
    /\ DOMAIN pendBySession # {}
    /\ products = <<>>

(***************************************************************************)
(* C5                                                                      *)
(***************************************************************************)

\* C5: while a session is pending, every non-empty message that fails to
\* parse as a price is answered with the re-prompt (status 200), never with an
\* error.
C5_RepromptNotError ==
  [][\A r \in Reqs :
       LookupStep(r) /\ OnOpenSession(r) /\ ~Parseable(r)
         /\ TrimSpace(creq[r].msg) # <<>>
         => creq'[r].resp = [status |-> 200, kind |-> "reprompt", prod |-> 0]]_catVars

(***************************************************************************)
(* C6                                                                      *)
(***************************************************************************)

\* the row a request in chat_clear has inserted
RowOf(r) == products[creq[r].resp.prod]

\* C6 as stated: the inserted record is owned by the tenant stored in the
\* pending session, whatever headers the committing request carries.
C6_Original ==
  \A r \in Reqs :
    creq[r].pc = "chat_clear"
      => /\ RowOf(r).org_id = creq[r].p.OrgID
         /\ RowOf(r).flow_id = creq[r].p.FlowID

\* C6 as amended: each of org id and flow id of the record is the number in
\* the committing request's header when that is a positive number, and the one
\* stored in the pending session otherwise.
C6_HeaderThenSession ==
  \A r \in Reqs :
    creq[r].pc = "chat_clear"
      => LET ho == mustAtoi(creq[r].hdr.org)
             hf == mustAtoi(creq[r].hdr.flow)
         IN /\ creq[r].p.OrgID >= 1 /\ creq[r].p.FlowID >= 1
            /\ ho > 0 => RowOf(r).org_id = ho
            /\ ho <= 0 => RowOf(r).org_id = creq[r].p.OrgID
            /\ hf > 0 => RowOf(r).flow_id = hf
            /\ hf <= 0 => RowOf(r).flow_id = creq[r].p.FlowID

\* a draft opened by tenant 1 was committed by a request with X-Org-ID 2
C6_Witness ==
  \E r \in Reqs :
    /\ creq[r].pc = "chat_clear"
    /\ creq[r].p.OrgID = 1
    /\ mustAtoi(creq[r].hdr.org) = 2
    /\ RowOf(r).org_id = 2

(***************************************************************************)
(* C10                                                                     *)
(***************************************************************************)

\* a step of request r leaves every pending session other than the one of
\* r's session id as it was: present or absent, and with the same draft
C10Frame(r) ==
  creq'[r] # creq[r]
    => \A k \in DOMAIN pendBySession \cup DOMAIN pendBySession' :
         k # creq[r].sid
           => /\ k \in DOMAIN pendBySession
              /\ k \in DOMAIN pendBySession'
              /\ pendBySession'[k] = pendBySession[k]

\* the draft a chat request takes from the store is the one of its own id
C10Read(r) ==
  LookupStep(r) /\ creq'[r].pc = "chat_insert"
    => /\ creq'[r].sid = creq[r].sid
       /\ creq'[r].p = pendBySession[creq[r].sid]

\* image URL and suggestion of the inserted row are those of the draft read
C10Row(r) ==
  /\ LastRow.image_base64 = creq[r].p.ImageURL
  /\ LastRow.title = limitRunes(creq[r].p.Suggest.Title, TitleMax)
  /\ LastRow.category = limitRunes(creq[r].p.Suggest.Category, CategoryMax)
  /\ LastRow.slug \in { limitRunes(creq[r].p.Suggest.Description, SlugMax),
                        limitRunes(Join(creq[r].p.Suggest.Tags, <<",", " ">>), SlugMax) }

\* no session other than r's own holds the draft r is committing
C10Own ==
  \A r \in Reqs :
    creq[r].pc \in {"chat_insert", "chat_clear"}
      => \A k \in DOMAIN pendBySession :
           pendBySession[k].ImageURL = creq[r].p.ImageURL => k = creq[r].sid

\* C10 as stated: an operation on session id A never reads, changes or removes
\* the pending session of another id B, and a record committed for A carries
\* only A's tenant, image URL and suggestion.
C10_Original ==
  /\ []C10Own
  /\ [][\A r \in Reqs :
          /\ C10Frame(r)
          /\ C10Read(r)
          /\ InsertStep(r) /\ Inserted
               => /\ C10Row(r)
                  /\ LastRow.org_id = creq[r].p.OrgID
                  /\ LastRow.flow_id = creq[r].p.FlowID]_catVars

\* C10 as amended: the same for the pending sessions, the image URL and the
\* suggestion; the record's org id and flow id are A's stored ones except
\* where the committing request's own header gives a positive number.
C10_Isolation ==
  /\ []C10Own
  /\ [][\A r \in Reqs :
          /\ C10Frame(r)
          /\ C10Read(r)
          /\ InsertStep(r) /\ Inserted
               => /\ C10Row(r)
                  /\ LastRow.org_id \in {creq[r].p.OrgID, mustAtoi(creq[r].hdr.org)}
                  /\ LastRow.flow_id \in {creq[r].p.FlowID, mustAtoi(creq[r].hdr.flow)}]_catVars

\* the draft of session a was committed while the draft of session b, opened
\* by another upload, is still pending
C10_Witness ==
  \E r \in Reqs :
    /\ creq[r].pc = "done" /\ creq[r].resp.kind = "committed"
    /\ DOMAIN pendBySession = {<<"b">>}
    /\ products[creq[r].resp.prod].image_base64 # pendBySession[<<"b">>].ImageURL

(***************************************************************************)
(* C16, C17                                                                *)
(***************************************************************************)

\* C16: the AI call of a vision upload never ends the upload: whatever the
\* call returns, the handler goes on to save the image.
C16_VisionFailureDegrades ==
  [][\A r \in Reqs :
       creq[r].pc = "vision_ai" /\ creq'[r] # creq[r]
         => creq'[r].pc = "vision_save"]_vars

\* the reply is not the requested JSON, or its title is blank
NeedsFallback(reply) == reply.jsonErr \/ TrimSpace(reply.sug.Title) = <<>>

\* the suggestion of an upload that has passed the AI call
StagedSuggest(r) == creq[r].sug

Staged(r) == creq[r].pc \in {"vision_save", "vision_set"}

\* the suggestions visionUpload can arrive at
Suggestions ==
  {suggestFrom(reply, TrimSpace(hint)) : reply \in VisionReplies, hint \in Hints}

\* C17 as stated: an upload that took the fallback carries the generic
\* description and category "Geral", and its title is the hint or "Produto".
C17_Original ==
  \A r \in Reqs :
    Staged(r) /\ StagedSuggest(r).Description = FallbackDescription
      => /\ StagedSuggest(r).Category = Geral
         /\ StagedSuggest(r).Title \in {Produto} \cup {TrimSpace(h) : h \in Hints}

\* the fallback as the code computes it: title and description are replaced,
\* the category only when the reply left it empty
FallbackRule ==
  \A reply \in VisionReplies, hint \in Hints :
    LET h == TrimSpace(hint)
        s == suggestFrom(reply, h)
    IN IF NeedsFallback(reply)
       THEN /\ s.Title = (IF h # <<>> THEN h ELSE Produto)
            /\ s.Description = FallbackDescription
            /\ s.Category = (IF reply.sug.Category = <<>> THEN Geral
                             ELSE reply.sug.Category)
            /\ s.Tags = reply.sug.Tags
       ELSE s = reply.sug

\* C17: the fallback replaces title (hint or "Produto") and description, and
\* sets category "Geral" unless the reply carried a category, which it keeps;
\* every staged suggestion and every pending session has a non-blank title;
\* and an upload whose image was saved answers 200 and, given a non-blank
\* session id, opens the pending session with the staged suggestion.
C17_Fallback ==
  /\ [](/\ FallbackRule
        /\ \A r \in Reqs :
             Staged(r) => /\ StagedSuggest(r) \in Suggestions
                          /\ TrimSpace(StagedSuggest(r).Title) # <<>>
        /\ \A k \in DOMAIN pendBySession :
             TrimSpace(pendBySession[k].Suggest.Title) # <<>>)
  /\ [][\A r \in Reqs :
          creq[r].pc = "vision_set" /\ creq'[r].pc = "done"
            => /\ creq'[r].resp.status = 200
               /\ creq[r].sid # <<>>
                    => /\ creq[r].sid \in DOMAIN pendBySession'
                       /\ pendBySession'[creq[r].sid].Suggest = StagedSuggest(r)]_vars

\* a pending session was opened with the whole fallback: "Produto", the
\* generic description and "Geral"
C17_Witness ==
  \E k \in DOMAIN pendBySession :
    /\ pendBySession[k].Suggest.Title = Produto
    /\ pendBySession[k].Suggest.Description = FallbackDescription
    /\ pendBySession[k].Suggest.Category = Geral

(***************************************************************************)
(* C20                                                                     *)
(***************************************************************************)

\* the last three characters, or all of them when there are fewer
LastUpToThree(str) ==
  IF Len(str) < 3 THEN str ELSE SubSeq(str, Len(str) - 2, Len(str))

\* the separators rule as it is stated
StatedNormal(s) ==
  LET str == PriceStr(s) IN
    IF Contains(str, ",") /\ ~Contains(LastUpToThree(str), ".")
    THEN ReplaceAll(ReplaceAll(str, <<".">>, <<>>), <<",">>, <<".">>)
    ELSE IF Contains(str, ",") /\ Contains(str, ".")
         THEN ReplaceAll(str, <<",">>, <<>>)
         ELSE str

\* the result the stated rule gives: cents, or a parse failure
StatedPrice(s) ==
  LET n == StatedNormal(s) IN
    IF ParseFloatOk(n) /\ ~FloatNegative(n)
    THEN [panic |-> FALSE, ok |-> TRUE, cents |-> CentsOf(n)]
    ELSE [panic |-> FALSE, ok |-> FALSE, cents |-> 0]

StatedExamples ==
  /\ priceIn = <<"1", "2", "9", ",", "9", "0">> => priceOut.ok /\ priceOut.cents = 12990
  /\ priceIn = <<"1", ".", "2", "3", "4", ",", "5", "6">>
       => priceOut.ok /\ priceOut.cents = 123456
  /\ priceIn = <<"1", "2", "9", ".", "9", "0">> => priceOut.ok /\ priceOut.cents = 12990
  /\ priceIn = <<"R", "$", " ", "1", "2", ",", "3", "4">>
       => priceOut.ok /\ priceOut.cents = 1234
  /\ priceIn = <<"a", "b", "c">> => ~priceOut.ok

\* C20: for every input the call returns what the stated rule gives: the
\* documented examples, the separators rule, a failure for a negative value
\* and never a negative amount.
C20_PriceRule ==
  priceOut # NoPrice
    => /\ priceOut = StatedPrice(priceIn)
       /\ StatedExamples
       /\ priceOut.ok => priceOut.cents >= 0

(***************************************************************************)
(* Webhook ingestion and SetWebhook: claims                                *)
(***************************************************************************)

WebhookDone(r) == wreq[r].kind = "webhook" /\ wreq[r].pc = "done"

SetWebhookDone(r) == wreq[r].kind = "setwebhook" /\ wreq[r].pc = "done"

C7_AckDoesNotWait ==
  \A r \in WReqs :
    (wreq[r].pc = "wh_await") ~> (WebhookDone(r) /\ wreq[r].status = 202)

\* C8: when SetWebhook goes on to the provider with a requested URL, the
\* registry row of the instance holds that URL.
C8_WriteBeforeProvider ==
  [][\A r \in WReqs :
       (/\ wreq[r].pc = "idle"
        /\ wreq'[r].pc = "sw_provider"
        /\ wreq'[r].url # <<>>)
       => /\ wreq'[r].instance \in DOMAIN wa_instances'
          /\ wa_instances'[wreq'[r].instance].webhook_url = wreq'[r].url]_vars

\* C9: a SetWebhook request whose provider call failed, by a transport error
\* or by an error status, was answered 502.
C9_ProviderFailureIsBadGateway ==
  \A r \in WReqs :
    (SetWebhookDone(r) /\ wreq[r].prov \in {"neterr", "error"}) =>
      wreq[r].status = 502
\* C18: a webhook request without an instance id ends at once with 400: it
\* has made no audit insert, no registry lookup and no forward, and the audit
\* log, the registry and the forwards are as they were.
C18_RejectBeforeSideEffects ==
  [][\A r \in WReqs :
       (/\ wreq[r].pc = "idle"
        /\ wreq'[r].kind = "webhook"
        /\ wreq'[r].instance = <<>>)
       => /\ wreq'[r].pc = "done"
          /\ wreq'[r].status = 400
          /\ wreq'[r].logged = "none"
          /\ wreq'[r].lookup = "none"
          /\ wreq'[r].fwd = "none"
          /\ webhooks_log' = webhooks_log
          /\ wa_instances' = wa_instances
          /\ forwards' = forwards]_vars

\* a webhook request without an instance id was answered 400, with nothing
\* logged and nothing forwarded
C18_Witness ==
  \E r \in WReqs :
    /\ WebhookDone(r)
    /\ wreq[r].instance = <<>>
    /\ wreq[r].status = 400
    /\ webhooks_log = << >>
    /\ forwards = << >>
(***************************************************************************)
(* Instance handlers: claims                                               *)
(***************************************************************************)

\* a request is at a call to the provider
AtProvider ==
  \/ \E r \in IReqs :
       ireq[r].pc \in {"cr_provider", "st_provider", "qr_first", "qr_second",
                       "sd_provider"}
  \/ \E r \in WReqs : wreq[r].pc = "sw_provider"

MockBody(kind) ==
  CASE kind = "create" -> "mock-connect"
    [] kind = "status" -> "waiting-qr"
    [] kind = "qr" -> "mock-qr"
    [] kind = "send" -> "mock-send"

\* the step in which instance request r writes its response
Replies(r) == ireq[r].pc # "reply" /\ ireq'[r].pc = "reply"

\* C11: without a provider base URL no request is ever at a provider call,
\* and every request that passes its input validation is answered with the
\* mock result of its operation and a success status.
C11_MockMode ==
  ~uazBase =>
    /\ ~AtProvider
    /\ \A r \in IReqs :
         (ireq[r].pc = "reply" /\ ireq[r].status # 400)
           => /\ ireq[r].status = (IF ireq[r].kind = "create" THEN 201 ELSE 200)
              /\ ireq[r].body = MockBody(ireq[r].kind)
    /\ \A r \in WReqs :
         (SetWebhookDone(r) /\ wreq[r].status # 400)
           => /\ wreq[r].status = 200
              /\ wreq[r].ok = "true"
              /\ wreq[r].prov = "none"

\* in mock mode a QR request is being answered with the mock QR after a
\* SetWebhook was answered with the local success
C11_Witness ==
  /\ ~uazBase
  /\ \E r \in IReqs :
       ireq[r].pc = "reply" /\ ireq[r].kind = "qr" /\ ireq[r].body = "mock-qr"
  /\ \E r \in WReqs : SetWebhookDone(r) /\ wreq[r].status = 200

\* C12: a configured create that obtains no token from the provider answers
\* with an error status and writes no registry row.
C12_NoTokenFails ==
  [][\A r \in IReqs :
       (ireq[r].pc = "cr_provider" /\ Replies(r) /\ ireq'[r].token = <<>>)
         => /\ ireq'[r].status >= 400
            /\ wa_instances' = wa_instances]_vars

\* C13: when a create answers 201, the registry holds a row under the
\* returned instance id with the returned token and the caller's tenant.
C13_SuccessHasRow ==
  [][\A r \in IReqs :
       (Replies(r) /\ ireq'[r].kind = "create" /\ ireq'[r].status = 201)
         => /\ ireq'[r].instance \in DOMAIN wa_instances'
            /\ wa_instances'[ireq'[r].instance].token = ireq'[r].token
            /\ wa_instances'[ireq'[r].instance].org_id = ireq'[r].org
            /\ wa_instances'[ireq'[r].instance].flow_id = ireq'[r].flow]_vars

\* C14: in mock mode the instance id a create returns is not one the registry
\* already holds, and the create leaves every existing row as it was.
C14_DistinctIds ==
  [][\A r \in IReqs :
       (~uazBase /\ Replies(r) /\ ireq'[r].kind = "create" /\ ireq'[r].status = 201)
         => /\ ireq'[r].instance \notin DOMAIN wa_instances
            /\ \A k \in DOMAIN wa_instances :
                 k \in DOMAIN wa_instances' /\ wa_instances'[k] = wa_instances[k]]_vars

\* C15: a configured QR request is answered 200 with the body of /qr, the
\* body of /qrcode, or the waiting-qr placeholder.
C15_QrPlaceholder ==
  [][\A r \in IReqs :
       (ireq[r].pc \in {"qr_first", "qr_second"} /\ Replies(r))
         => /\ ireq'[r].status = 200
            /\ ireq'[r].body \in {"provider-qr", "provider-qrcode", "waiting-qr"}]_vars

\* upsertWAInstance with an empty URL on a row that exists: token and tenant
\* are the new ones, the URL is the stored one
UpsertFrameRule ==
  \A url0 \in {Null, <<"u">>}, t0 \in RandTokens, t1 \in RandTokens \cup {<<"t">>},
     o1 \in 1..2, f1 \in 1..2 :
    LET reg == (<<"i">> :> [token |-> t0, org_id |-> 1, flow_id |-> 1,
                            webhook_url |-> url0])
    IN upsertWAInstance(reg, <<"i">>, t1, o1, f1, <<>>)
         = (<<"i">> :> [token |-> t1, org_id |-> o1, flow_id |-> f1,
                        webhook_url |-> url0])

\* C19: a create whose upsert lands on an existing row replaces token and
\* tenant and leaves the webhook URL; a SetWebhook with an empty url leaves
\* the URL of an existing row; and the URL of a row changes only in the step
\* of a SetWebhook request, to a URL that is not empty.
C19_EmptyUrlKeepsUrl ==
  /\ []UpsertFrameRule
  /\ [][/\ \A r \in IReqs :
            (/\ Replies(r) /\ ireq'[r].kind = "create" /\ ireq'[r].wrote = "ok"
             /\ ireq'[r].instance \in DOMAIN wa_instances)
            => wa_instances'[ireq'[r].instance] =
                 [token |-> ireq'[r].token, org_id |-> ireq'[r].org,
                  flow_id |-> ireq'[r].flow,
                  webhook_url |-> wa_instances[ireq'[r].instance].webhook_url]
        /\ \A r \in WReqs :
            (/\ wreq[r].pc = "idle" /\ wreq'[r].pc = "sw_provider"
             /\ wreq'[r].url = <<>> /\ wreq'[r].instance \in DOMAIN wa_instances)
            => wa_instances'[wreq'[r].instance].webhook_url =
                 wa_instances[wreq'[r].instance].webhook_url
        /\ \A k \in DOMAIN wa_instances :
            /\ k \in DOMAIN wa_instances'
            /\ wa_instances'[k].webhook_url # wa_instances[k].webhook_url
                 => /\ wa_instances'[k].webhook_url # Null
                    /\ \E r \in WReqs :
                         wreq[r].pc = "idle" /\ wreq'[r].kind = "setwebhook"]_vars

\* a create has just upserted the row of instance i, which holds the create's
\* token and still the webhook URL u that a SetWebhook stored before
C19_Witness ==
  \E r \in IReqs :
    /\ ireq[r].pc = "reply" /\ ireq[r].kind = "create" /\ ireq[r].wrote = "ok"
    /\ ireq[r].instance \in DOMAIN wa_instances
    /\ wa_instances[ireq[r].instance].webhook_url = <<"u">>
    /\ wa_instances[ireq[r].instance].token = ireq[r].token
    /\ \E w \in WReqs : SetWebhookDone(w) /\ wreq[w].status = 200
\* C21 as stated: a create with a blank name is answered 201 and its instance
\* is in the registry.
C21_Original ==
  [][\A r \in IReqs :
       (Replies(r) /\ ireq'[r].kind = "create" /\ TrimSpace(ireq'[r].name) = <<>>)
         => /\ ireq'[r].status = 201
            /\ ireq'[r].instance \in DOMAIN wa_instances']_vars

\* C21 as amended: a create with a blank or missing name is rejected: it is
\* answered 400 at once, without a provider call, and the registry is as it
\* was.
C21_BlankNameRejected ==
  [][\A r \in IReqs :
       (Replies(r) /\ ireq'[r].kind = "create" /\ TrimSpace(ireq'[r].name) = <<>>)
         => /\ ireq[r].pc = "idle"
            /\ ireq'[r].status = 400
            /\ ireq'[r].instance = <<>>
            /\ wa_instances' = wa_instances]_vars

\* a create with a blank name has been answered 400 and the registry is empty
C21_Witness ==
  \E r \in IReqs :
    /\ ireq[r].pc = "reply" /\ ireq[r].kind = "create"
    /\ TrimSpace(ireq[r].name) = <<>>
    /\ ireq[r].status = 400
    /\ wa_instances = << >>

\* C22: every 200 answer of a configured status request has a status field.
C22_StatusAlwaysPresent ==
  [][\A r \in IReqs :
       (ireq[r].pc = "st_provider" /\ Replies(r) /\ ireq'[r].status = 200)
         => ireq'[r].st # <<>>]_vars

\* C23: a token that the provider's create response carries, flat or nested,
\* is the token the create returns, and the upsert is attempted with it.
C23_TokenFoundInBothShapes ==
  [][\A r \in IReqs :
       (ireq[r].pc = "cr_provider" /\ Replies(r) /\ ireq'[r].sent # <<>>)
         => /\ ireq'[r].token = ireq'[r].sent
            /\ ireq'[r].wrote # "none"]_vars

\* C26: a commit removes only the draft it committed: when the session of a
\* clearing request holds another draft than the one the request read, that
\* draft is still pending after the clear.
C26_CommitDestroysOnlyItsDraft ==
  [][\A r \in Reqs :
       (/\ ClearStep(r)
        /\ creq[r].sid \in DOMAIN pendBySession
        /\ pendBySession[creq[r].sid] # creq[r].p)
         => /\ creq[r].sid \in DOMAIN pendBySession'
            /\ pendBySession'[creq[r].sid] = pendBySession[creq[r].sid]]_vars

\* C27: a commit whose catalog insert fails answers with a server error and
\* without a record, adds no row, and leaves every pending session as it was.
C27_InsertFailureKeepsSession ==
  [][\A r \in Reqs :
       (InsertStep(r) /\ ~Inserted)
         => /\ creq'[r].pc = "done"
            /\ creq'[r].resp.status = 500
            /\ creq'[r].resp.prod = 0
            /\ products' = products
            /\ pendBySession' = pendBySession]_vars

\* an insert failed, and a later request committed the draft of the session
C27_Witness ==
  \E r1, r2 \in Reqs :
    /\ r1 < r2
    /\ creq[r1].pc = "done" /\ creq[r1].resp.kind = "db-error"
    /\ creq[r2].pc = "done" /\ creq[r2].resp.kind = "committed"
    /\ Len(products) = 1
    /\ DOMAIN pendBySession = {}

\* every pending session has a non-empty id and the image of a written file
SessionsHaveIdAndImage ==
  \A k \in DOMAIN pendBySession :
    /\ k # <<>>
    /\ \E f \in uploads : pendBySession[k].ImageURL = <<"/uploads", f>>

\* C29: every pending session has a non-empty session id and refers to an
\* image that was written; an upload whose save fails ends without opening a
\* session; an upload with an empty session id writes its image and opens no
\* session; a chat message with an empty session id is never committed.
C29_SessionNeedsIdAndImage ==
  /\ []SessionsHaveIdAndImage
  /\ [][\A r \in Reqs :
          /\ (creq[r].pc = "vision_save" /\ creq'[r].pc = "done")
               => pendBySession' = pendBySession /\ uploads' = uploads
          /\ (creq[r].pc = "vision_set" /\ creq'[r].pc = "done"
                /\ creq[r].sid = <<>>)
               => pendBySession' = pendBySession /\ creq[r].file \in uploads
          /\ (LookupStep(r) /\ creq[r].sid = <<>>)
               => creq'[r].pc # "chat_insert" /\ products' = products]_vars

\* an upload without a session id has answered with its suggestion: its image
\* is written, and no session is open
C29_Witness ==
  /\ \E r \in Reqs : creq[r].pc = "done" /\ creq[r].resp.kind = "suggest"
  /\ uploads # {}
  /\ DOMAIN pendBySession = {}
  /\ products = <<>>
  /\ \A r \in Reqs : creq[r].pc \in {"idle", "done"}

\* C30: the router calls the model exactly when the session id has no pending
\* session: a non-empty message on a pending session is committed or
\* re-prompted, and a message on a session id without a pending session goes to
\* the model.
C30_RouterByPendingSession ==
  [][\A r \in Reqs :
       (LookupStep(r) /\ TrimSpace(creq[r].msg) # <<>>)
         => IF OnOpenSession(r)
            THEN \/ creq'[r].pc = "chat_insert"
                 \/ creq'[r].resp = [status |-> 200, kind |-> "reprompt", prod |-> 0]
            ELSE creq'[r].pc = "chat_ai"]_vars

\* C28: a SetWebhook request leaves the set of registry rows as it was, and
\* the token and the tenant of every row as they were.
C28_SetWebhookOnlyUrl ==
  [][\A r \in WReqs :
       (wreq[r].pc = "idle" /\ wreq'[r].kind = "setwebhook")
         => /\ DOMAIN wa_instances' = DOMAIN wa_instances
            /\ \A k \in DOMAIN wa_instances :
                 /\ wa_instances'[k].token = wa_instances[k].token
                 /\ wa_instances'[k].org_id = wa_instances[k].org_id
                 /\ wa_instances'[k].flow_id = wa_instances[k].flow_id]_vars

\* the place of a handler position in its handler's text: every outbound
\* call of a handler has a position of its own, and the positions of one
\* handler are numbered in the order of the text
stepRank(pc) ==
  CASE pc = "idle" -> 0
    [] pc \in {"wh_log", "sw_provider", "cr_provider", "st_provider", "qr_first",
               "sd_provider", "chat_recv", "vision_ai"} -> 1
    [] pc \in {"wh_lookup", "qr_second", "chat_insert", "chat_ai", "vision_save"} -> 2
    [] pc \in {"wh_send", "chat_clear", "vision_set"} -> 3
    [] pc = "wh_await" -> 4
    [] pc = "reply" -> 5
    [] OTHER -> 6

\* the paths of the two QR attempts
qrPath(pc) == IF pc = "qr_first" THEN <<"/", "q", "r">>
              ELSE <<"/", "q", "r", "c", "o", "d", "e">>

\* every step of a request moves it to a later position of its handler
Forward(old, new) == new # old => stepRank(new.pc) > stepRank(old.pc)

\* the webhook requests that have attempted the audit insert, and those that
\* have sent the forward
AuditAttempted ==
  {r \in WReqs : /\ wreq[r].kind = "webhook"
                 /\ \/ wreq[r].pc \in {"wh_lookup", "wh_send", "wh_await"}
                    \/ wreq[r].fwd # "none"}

ForwardSent ==
  {r \in WReqs : wreq[r].kind = "webhook" /\ wreq[r].fwd \in {"sent", "neterr", "replied"}}

\* C24: no outbound call is retried.  Every step of a request moves it to a
\* later position of its handler, so the audit insert, the registry lookup,
\* the forward, each provider endpoint and the completion are each attempted
\* at most once per request, whatever their outcome; the audit log and the
\* forwards sent grow by one entry at the one step that writes them and never
\* have more entries than requests that got there; the two QR attempts use
\* different paths.
C24_NoRetry ==
  /\ [](/\ Len(forwards) <= Cardinality(ForwardSent)
        /\ Len(webhooks_log) <= Cardinality(AuditAttempted)
        /\ qrPath("qr_first") # qrPath("qr_second"))
  /\ [][/\ \A r \in WReqs : Forward(wreq[r], wreq'[r])
        /\ \A r \in IReqs : Forward(ireq[r], ireq'[r])
        /\ \A r \in Reqs : Forward(creq[r], creq'[r])
        /\ forwards' # forwards
             => /\ Len(forwards') = Len(forwards) + 1
                /\ \E r \in WReqs : wreq[r].pc = "wh_send" /\ wreq'[r].pc = "wh_await"
        /\ webhooks_log' # webhooks_log
             => /\ Len(webhooks_log') = Len(webhooks_log) + 1
                /\ \E r \in WReqs : wreq[r].pc = "wh_log" /\ wreq'[r].pc = "wh_lookup"]_vars

\* a forward failed in the transport, the request was acknowledged, and the
\* forward was sent once
C24_Witness ==
  /\ wstarted = 1
  /\ WebhookDone(1) /\ wreq[1].fwd = "neterr"
  /\ Len(forwards) = 1

\* C25: pendMu is held only inside a session store function: its holder is at
\* a map read, write or delete, and no request holds it while its catalog
\* insert, its model call or its file write is in progress; every call of
\* set, get and clear returns, whether or not other requests are blocked on
\* the database, the model or the file system: no request stays inside a
\* store function (two store calls of a request are never back to back).
C25_LockOnlyAroundMapOps ==
  /\ [](\A r \in Reqs :
          /\ pendMu = r => creq[r].pc \in StorePcs
          /\ creq[r].pc \in IoPcs => pendMu # r)
  /\ \A r \in Reqs : []<>(creq[r].pc \notin StorePcs)

\* a request holds the lock for its setPending while the catalog insert of
\* another request is in progress
C25_Witness ==
  \E r1, r2 \in Reqs :
    /\ creq[r1].pc = "chat_insert"
    /\ creq[r2].pc = "vision_set"
    /\ pendMu = r2

====
